---- MODULE Spec2Model ----
(***************************************************************************)
(* MinecraftServer (the process supervisor with its RCON connector) and    *)
(* the death watcher / world reset workflow of index.ts, as one state      *)
(* machine.  Every step is one callback of the Node event loop: a public   *)
(* method call, a child-process event, a stdout chunk, a timer, or the     *)
(* continuation of an awaited promise.                                     *)
(***************************************************************************)
EXTENDS Integers, Sequences, FiniteSets, Bags, TLC

\* Bounds of the model.
MaxProc == 2        \* child processes spawned over a run
MaxLoops == 1       \* connector loops (_connectToRcon chains) alive at once
MaxWatchers == 2    \* watchForDeaths intervals created over a run
MaxTasks == 2       \* checkDeathCount invocations in flight at once

\* index.ts:101, the number of backups kept.
Retention == 10

\* File names of the backup directory, as strings of character codes: every
\* name of one or two characters over three characters.
Chars == {1, 2, 3}

Names == {<<a>> : a \in Chars} \cup {<<a, b>> : a \in Chars, b \in Chars}

\* The names of a directory that holds Retention backups.
KeptNames == Names \ {<<3, 2>>, <<3, 3>>}

VARIABLES
    serverStarting,    \* MinecraftServer._serverStarting
    serverOnline,      \* MinecraftServer._serverOnline
    serverRconOnline,  \* MinecraftServer._serverRconOnline
    rconConnected,     \* MinecraftServer._rconConnected
    rcon,              \* MinecraftServer.rcon: 0 = undefined, p = a session accepted by process p
    process,           \* MinecraftServer.process: 0 = undefined, p = the p-th spawned child
    nproc,             \* number of spawn() calls made so far
    status,            \* per child: "none" (not spawned), "alive", "dead"
    loops,             \* bag of connector loops: [st, gen, sess]
    watchers,          \* setInterval timers of watchForDeaths: [active, gen]
    tasks,             \* bag of checkDeathCount invocations: [w, pc, proc, log, arch, victim]
    stopPending,       \* per child: a stop() of some caller awaits its 'exit' event
    backups,           \* the names in the world-backups directory
    shutdownCalls,     \* per child: onShutdown invocations by its own handlers
    sinceStart,        \* what the children emitted since the latest start() that passed the guards
    last,              \* the observable outcome of the latest step
    fault,             \* where the failure of the latest step went: "none", "returned"
                       \* (to the caller), "logged", "ignored", "uncaught"
    score,             \* the score of #hc.distance in objective i of the world on disk
    platform,          \* process.platform of the run
    codecIn,           \* a mapping of property keys to values, given to stringify
    codecText,         \* the text stringify made of it
    codecOut           \* the mapping parse made of that text

supVars == <<serverStarting, serverOnline, serverRconOnline, rconConnected, rcon, process>>
envVars == <<nproc, status>>
appVars == <<loops, watchers, tasks>>
fsVars == <<backups, score>>
\* What no step of the supervisor, the watchers or resetWorld changes.
idleVars == <<platform, codecIn, codecText, codecOut>>
vars == <<serverStarting, serverOnline, serverRconOnline, rconConnected, rcon, process,
          nproc, status, loops, watchers, tasks, stopPending, backups,
          shutdownCalls, sinceStart, last, fault, score, platform,
          codecIn, codecText, codecOut>>

Procs == 1..MaxProc

Label(op, who, res) == [op |-> op, who |-> who, res |-> res]

\* One element more, one element less, in a bag.
Put(b, e) == b (+) SetToBag({e})
Take(b, e) == b (-) SetToBag({e})

\* A step the claims do not tell apart from another of its kind.
Quiet == Label("event", 0, "ok")

isOnline == serverOnline

isRCONConnected == rconConnected

\* The supervisor as its constructor leaves it, no watcher yet, and a backup
\* directory that is full.
Constructed ==
    /\ serverStarting = FALSE
    /\ serverOnline = FALSE
    /\ serverRconOnline = FALSE
    /\ rconConnected = FALSE
    /\ rcon = 0
    /\ process = 0
    /\ nproc = 0
    /\ status = [p \in Procs |-> "none"]
    /\ loops = EmptyBag
    /\ watchers = <<>>
    /\ tasks = EmptyBag
    /\ stopPending = [p \in Procs |-> FALSE]
    /\ backups = KeptNames
    /\ shutdownCalls = [p \in Procs |-> 0]
    /\ sinceStart = "never"
    /\ last = Label("init", 0, "ok")
    /\ fault = "none"

\* The properties codec at rest.
CodecIdle ==
    /\ codecIn = <<>>
    /\ codecText = <<>>
    /\ codecOut = <<>>

Init ==
    /\ Constructed
    /\ score = 0
    /\ platform = "linux"
    /\ CodecIdle

----
\* The handlers of a child's end with _serverOnline left as it is.
onProcessEndStaysOnline(p) ==
    /\ serverStarting' = FALSE
    /\ serverOnline' = serverOnline
    /\ rconConnected' = FALSE
    /\ serverRconOnline' = FALSE
    /\ shutdownCalls' = [shutdownCalls EXCEPT ![p] = @ + 1]

\* _onProcessExit and _onProcessError make the same assignments and both call
\* options.onShutdown.
onProcessEnd(p) ==
    /\ serverStarting' = FALSE
    /\ serverOnline' = FALSE
    /\ rconConnected' = FALSE
    /\ serverRconOnline' = FALSE
    /\ shutdownCalls' = [shutdownCalls EXCEPT ![p] = @ + 1]

\* MinecraftServer.start().  who names the caller in the label and onReject
\* says where its rejection goes.  Its outcomes: rejected by a guard; the
\* executor throws (_configureRCON's file access, or spawn itself) and the
\* catch logs it; the child is spawned; the spawn fails in the operating
\* system, and then Node emits 'error' (and no 'exit') on the next tick,
\* before any other callback runs, so _onProcessError has run (and logged)
\* when the step ends.
StartRejectsOnlyStarting == serverStarting

StartRejects == serverStarting \/ isOnline

start(who, onReject) ==
    IF StartRejects
    THEN /\ last' = Label("start", who, "rejected")
         /\ fault' = onReject
         /\ UNCHANGED <<supVars, envVars, shutdownCalls, sinceStart>>
    ELSE \/ /\ serverStarting' = TRUE
            /\ serverRconOnline' = FALSE
            /\ rconConnected' = FALSE
            /\ sinceStart' = "none"
            /\ last' = Label("start", who, "threw")
            /\ fault' = "logged"
            /\ UNCHANGED <<serverOnline, rcon, process, envVars, shutdownCalls>>
         \/ /\ nproc < MaxProc
            /\ status' = [status EXCEPT ![nproc + 1] = "alive"]
            /\ nproc' = nproc + 1
            /\ process' = nproc + 1
            /\ serverStarting' = FALSE
            /\ serverRconOnline' = FALSE
            /\ rconConnected' = FALSE
            /\ serverOnline' = TRUE
            /\ sinceStart' = "none"
            /\ last' = Label("start", who, "spawned")
            /\ fault' = "none"
            /\ UNCHANGED <<rcon, shutdownCalls>>
         \/ /\ nproc < MaxProc
            /\ status' = [status EXCEPT ![nproc + 1] = "dead"]
            /\ nproc' = nproc + 1
            /\ process' = nproc + 1
            /\ onProcessEnd(nproc + 1)
            /\ sinceStart' = "error"
            /\ last' = Label("start", who, "spawnerror")
            /\ fault' = "logged"
            /\ UNCHANGED rcon

\* Any caller of the public method that handles its promise: main()'s
\* awaited SERVER.start() among them.
CallStart ==
    /\ start(0, "returned")
    /\ UNCHANGED <<appVars, stopPending, fsVars, idleVars>>

\* The C-r key of the terminal: the promise of start() is dropped.
KeyRestart ==
    /\ ~isOnline
    /\ start(0, "uncaught")
    /\ UNCHANGED <<appVars, stopPending, fsVars, idleVars>>

\* The guard of stop(), kill(), write() and runCommand().
NotOnlineNoChild == process = 0

NotOnline == ~isOnline

Stopping(b, p) == {t \in BagToSet(b) : t.pc = "stopping" /\ t.proc = p}

\* The child emits 'exit'.  The listeners run in registration order:
\* _onProcessExit first, then the resolve of every stop() pending on this
\* child; a death sequence awaiting stop() goes on into resetWorld, which
\* runs up to its first await: mkdirSync makes the backup directory (when it
\* throws, the catch of checkDeathCount logs it and the sequence ends), then
\* the archive tool is started.
RECURSIVE StopsResolved(_, _, _)
StopsResolved(b, p, made) ==
    IF Stopping(b, p) = {} THEN b
    ELSE LET t == CHOOSE x \in Stopping(b, p) : TRUE
         IN  StopsResolved(
                 IF made
                 THEN Put(Take(b, t), [t EXCEPT !.pc = "zip", !.log = Append(@, "exit")])
                 ELSE Take(b, t),
                 p, made)

ProcExit(p) ==
    /\ status[p] = "alive"
    /\ status' = [status EXCEPT ![p] = "dead"]
    /\ onProcessEnd(p)
    /\ \E made \in BOOLEAN :
           /\ made \/ Stopping(tasks, p) # {}
           /\ tasks' = StopsResolved(tasks, p, made)
           /\ fault' = IF made THEN "none" ELSE "logged"
    /\ stopPending' = [stopPending EXCEPT ![p] = FALSE]
    /\ sinceStart' = "exit"
    /\ last' = Label("exit", 0, IF stopPending[p] THEN "resolved" ELSE "ok")
    /\ UNCHANGED <<rcon, process, nproc, loops, watchers, fsVars, idleVars>>

\* MinecraftServer.stop() as called by any caller (the C-q key among them):
\* an 'exit' listener that resolves the promise is added to the current
\* child and 'stop\n' is written to its stdin (the label "written").
CallStop ==
    /\ IF NotOnline
       THEN /\ last' = Label("stop", 0, "rejected")
            /\ fault' = "returned"
            /\ stopPending' = stopPending
       ELSE /\ last' = Label("stop", 0, "written")
            /\ fault' = "none"
            /\ stopPending' = [stopPending EXCEPT ![process] = TRUE]
    /\ UNCHANGED <<supVars, envVars, appVars, fsVars, idleVars, shutdownCalls, sinceStart>>

\* MinecraftServer.kill().  ChildProcess.kill either delivers the signal (the
\* label "signalled"; the child exits later, by ProcExit) or fails, and then
\* Node emits 'error' on the child, synchronously, while the child keeps
\* running.
CallKill ==
    /\ IF NotOnline
       THEN /\ last' = Label("kill", 0, "rejected")
            /\ fault' = "returned"
            /\ UNCHANGED <<supVars, shutdownCalls, sinceStart>>
       ELSE \/ /\ last' = Label("kill", 0, "signalled")
               /\ fault' = "none"
               /\ UNCHANGED <<supVars, shutdownCalls, sinceStart>>
            \/ /\ status[process] = "alive"
               /\ onProcessEnd(process)
               /\ sinceStart' = IF sinceStart = "none" THEN "error" ELSE sinceStart
               /\ last' = Label("kill", 0, "error")
               /\ fault' = "logged"
               /\ UNCHANGED <<rcon, process>>
    /\ UNCHANGED <<envVars, appVars, stopPending, fsVars, idleVars>>

\* MinecraftServer.runCommand() (and write(), which it calls) as called by
\* any caller, the input box of the terminal among them: it throws, or the
\* command is written to the stdin of the current child.
CallRunCommand ==
    /\ IF NotOnline
       THEN /\ last' = Label("runCommand", 0, "rejected")
            /\ fault' = "returned"
       ELSE /\ last' = Label("runCommand", 0, "written")
            /\ fault' = "none"
    /\ UNCHANGED <<supVars, envVars, appVars, stopPending, fsVars, idleVars, shutdownCalls, sinceStart>>

----
\* _onProcesSTDout: a chunk of child p's stdout holding the marker
\* 'Thread RCON Listener started'.  The first branch of the handler starts a
\* connector loop, which is at its await of Rcon.connect when the handler
\* returns.
StdoutStarted(p) ==
    /\ status[p] = "alive"
    /\ ~serverRconOnline
    /\ BagCardinality(loops) < MaxLoops
    /\ serverRconOnline' = TRUE
    /\ loops' = Put(loops, [st |-> "connecting", gen |-> p, sess |-> 0])
    /\ last' = Quiet
    /\ fault' = "none"
    /\ UNCHANGED <<serverStarting, serverOnline, rconConnected, rcon, process, envVars,
                   watchers, tasks, stopPending, fsVars, idleVars, shutdownCalls, sinceStart>>

\* A chunk holding 'Thread RCON Listener offline' (the else-if branch).
StdoutOffline(p) ==
    /\ status[p] = "alive"
    /\ serverRconOnline
    /\ serverRconOnline' = FALSE
    /\ last' = Quiet
    /\ fault' = "none"
    /\ UNCHANGED <<serverStarting, serverOnline, rconConnected, rcon, process, envVars,
                   appVars, stopPending, fsVars, idleVars, shutdownCalls, sinceStart>>

\* Rcon.connect of loop l is accepted by a running child; the promise
\* resolves in a later callback (LoopConnected).
LoopAccepted(l) ==
    /\ l.st = "connecting"
    /\ \E p \in Procs :
           /\ status[p] = "alive"
           /\ loops' = Put(Take(loops, l), [l EXCEPT !.st = "accepted", !.sess = p])
    /\ last' = Quiet
    /\ fault' = "none"
    /\ UNCHANGED <<supVars, envVars, watchers, tasks, stopPending, fsVars, idleVars,
                   shutdownCalls, sinceStart>>

\* Rcon.connect of loop l rejects: the catch logs, client is undefined and
\* the retry timer of one second is set.
LoopFailed(l) ==
    /\ l.st = "connecting"
    /\ loops' = Put(Take(loops, l), [l EXCEPT !.st = "waiting"])
    /\ last' = Quiet
    /\ fault' = "logged"
    /\ UNCHANGED <<supVars, envVars, watchers, tasks, stopPending, fsVars, idleVars,
                   shutdownCalls, sinceStart>>

\* The retry timer fires and _connectToRcon runs again: it throws when
\* _serverRconOnline is false (the loop ends; the timer callback drops the
\* rejected promise), else it connects again.
LoopRetry(l) ==
    /\ l.st = "waiting"
    /\ IF ~serverRconOnline
       THEN loops' = Take(loops, l)
       ELSE loops' = Put(Take(loops, l), [l EXCEPT !.st = "connecting"])
    /\ last' = Label("retry", l.gen, IF serverRconOnline THEN "connecting" ELSE "threw")
    /\ fault' = IF serverRconOnline THEN "none" ELSE "uncaught"
    /\ UNCHANGED <<supVars, envVars, watchers, tasks, stopPending, fsVars, idleVars,
                   shutdownCalls, sinceStart>>

\* The onOnline hook of index.ts, called by _onRCONConnected: runCommand
\* throws when the supervisor is not online, and then watchForDeaths is not
\* reached (the exception rejects the promise of _connectToRcon, which its
\* caller dropped); else the setup commands are written and a watcher is
\* created.
onOnline(l) ==
    IF NotOnline
    THEN /\ watchers' = watchers
         /\ last' = Label("onOnline", l.gen, "threw")
         /\ fault' = "uncaught"
    ELSE /\ Len(watchers) < MaxWatchers
         /\ watchers' = Append(watchers, [active |-> TRUE, gen |-> process])
         /\ last' = Label("onOnline", l.gen, "watching")
         /\ fault' = "none"

\* The await of Rcon.connect resumes with a client.
LoopConnected(l) ==
    /\ l.st = "accepted"
    /\ rconConnected' = TRUE
    /\ rcon' = l.sess
    /\ loops' = Take(loops, l)
    /\ onOnline(l)
    /\ UNCHANGED <<serverStarting, serverOnline, serverRconOnline, process, envVars,
                   tasks, stopPending, fsVars, idleVars, shutdownCalls, sinceStart>>

----
\* The interval callback of watchForDeaths, every 15 seconds while the
\* interval is not cleared: the guard clears the interval; else
\* checkDeathCount starts and has issued its first send when the callback
\* returns.  setInterval does not wait for the promise of an earlier tick.
TickStopsOnlyOffline == ~isOnline

TickStops == ~isOnline \/ ~isRCONConnected

Tick(w) ==
    /\ watchers[w].active
    /\ IF TickStops
       THEN /\ watchers' = [watchers EXCEPT ![w].active = FALSE]
            /\ tasks' = tasks
            /\ last' = Label("tick", w, "stopped")
       ELSE /\ BagCardinality(tasks) < MaxTasks
            /\ watchers' = watchers
            /\ tasks' = Put(tasks, [w |-> w, pc |-> "detect", proc |-> 0, log |-> <<>>,
                                    arch |-> "none", victim |-> <<>>])
            /\ last' = Label("tick", w, "checking")
    /\ fault' = "none"
    /\ UNCHANGED <<supVars, envVars, loops, stopPending, fsVars, idleVars, shutdownCalls, sinceStart>>

\* A send resolves only while the child that accepted the session runs.
SessionLive == rcon # 0 /\ status[rcon] = "alive"

\* A send of checkDeathCount or showStats rejects: the exception leaves
\* checkDeathCount and the interval callback, whose promise nobody handles,
\* and nothing of the invocation remains.
SendFails(t) ==
    /\ t.pc \in {"detect", "announce", "countdown"}
    /\ tasks' = Take(tasks, t)
    /\ last' = Label("send", t.w, "failed")
    /\ fault' = "uncaught"
    /\ UNCHANGED <<supVars, envVars, loops, watchers, stopPending, fsVars, idleVars,
                   shutdownCalls, sinceStart>>

\* The response to the third detection command, as the set of the success
\* substrings it contains.
Markers == {"passed", "commands.execute.conditional.pass"}

Responses == SUBSET Markers

\* The test of checkDeathCount on the response, passing whatever arrives.
PassesAnyResponse(result) == result \subseteq Markers

\* The test of checkDeathCount on the response.
Passes(result) == "passed" \in result \/ "commands.execute.conditional.pass" \in result

\* The response to the third detection command arrives.  Without a success
\* substring checkDeathCount returns; with one it clears the interval and
\* goes on to the titles, the stats and the countdown.
Detected(t, result) ==
    /\ t.pc = "detect"
    /\ SessionLive
    /\ IF Passes(result)
       THEN /\ watchers' = [watchers EXCEPT ![t.w].active = FALSE]
            /\ tasks' = Put(Take(tasks, t), [t EXCEPT !.pc = "announce"])
       ELSE /\ watchers' = watchers
            /\ tasks' = Take(tasks, t)
    /\ last' = [op |-> "detect", who |-> t.w,
                 res |-> IF Passes(result) THEN "passed" ELSE "none",
                 response |-> result]
    /\ fault' = "none"
    /\ UNCHANGED <<supVars, envVars, loops, stopPending, fsVars, idleVars, shutdownCalls, sinceStart>>

\* The travel objectives showStats folds, in its order.
distanceObjectives ==
    <<"sneakTravel", "walkTravel", "sprintTravel", "swimTravel", "flyTravel",
      "horseTravel", "pigTravel", "minecartTravel", "striderTravel",
      "walkOnWaterTravel", "walkUnderWaterTravel", "fallTravel", "boatTravel",
      "climbTravel">>

\* The score of the holder 100 in objective i, set by onOnline.
Hundred == 100

\* The players online when showStats runs (@a).
Players == {1, 2}

\* The commands of showStats on the distance, in the order of its awaits:
\* one fold per objective, the division, the broadcast.
distanceCommands ==
    [k \in 1..Len(distanceObjectives) |-> <<"fold", distanceObjectives[k]>>]
    \o <<<<"divide", "i">>, <<"tellraw", "i">>>>

\* execute as @a run scoreboard players operation #hc.distance i += @s o:
\* once per player, the player's score of objective o is added.
RECURSIVE foldPlayers(_, _, _, _)
foldPlayers(ps, o, scores, acc) ==
    IF ps = {} THEN acc
    ELSE LET pl == CHOOSE x \in ps : TRUE
         IN  foldPlayers(ps \ {pl}, o, scores, acc + scores[pl][o])

\* The server runs the commands one after the other on the score of
\* #hc.distance (acc), and shows it at the tellraw.
RECURSIVE runCommands(_, _, _)
runCommands(cmds, scores, st) ==
    IF cmds = <<>> THEN st
    ELSE LET c == Head(cmds)
         IN  runCommands(Tail(cmds), scores,
                 IF c[1] = "fold"
                 THEN [st EXCEPT !.acc = foldPlayers(Players, c[2], scores, @)]
                 ELSE IF c[1] = "divide"
                 THEN [st EXCEPT !.acc = @ \div Hundred]
                 ELSE [st EXCEPT !.shown = st.acc])

\* The scores of the players: player 1 has a in the k-th objective, every
\* other score is b.
Travel(k, a, b) ==
    [pl \in Players |-> [o \in {distanceObjectives[i] : i \in 1..Len(distanceObjectives)} |->
        IF pl = 1 /\ o = distanceObjectives[k] THEN a ELSE b]]

\* Players who have not moved.
Still == Travel(1, 0, 0)

TravelA == {99, 12345}

TravelB == {0, 1}

\* The sum of all scores of the travel objectives.
RECURSIVE SumOver(_, _)
SumOver(S, f) ==
    IF S = {} THEN 0
    ELSE LET x == CHOOSE y \in S : TRUE
         IN  f[x] + SumOver(S \ {x}, f)

TotalTravel(scores) ==
    SumOver(Players, [pl \in Players |-> SumOver(DOMAIN scores[pl], scores[pl])])

\* showStats: the sends of the stats resolve one after the other; the
\* distance is folded into the score of #hc.distance, which the world keeps,
\* divided and shown.  The countdown begins.
ShowStats(t, scores) ==
    /\ t.pc = "announce"
    /\ SessionLive
    /\ LET st == runCommands(distanceCommands, scores, [acc |-> score, shown |-> 0])
       IN  /\ score' = st.acc
           /\ last' = [op |-> "stats", who |-> t.w, res |-> "ok",
                       travelled |-> TotalTravel(scores), shown |-> st.shown]
    /\ tasks' = Put(Take(tasks, t), [t EXCEPT !.pc = "countdown"])
    /\ fault' = "none"
    /\ UNCHANGED <<supVars, envVars, loops, watchers, stopPending, backups, idleVars,
                   shutdownCalls, sinceStart>>

\* The thirtieth countdown delay ends and server.stop() is called: its
\* rejection leaves checkDeathCount and the interval callback as a failed
\* send does.
CountdownDone(t) ==
    /\ t.pc = "countdown"
    /\ SessionLive
    /\ IF NotOnline
       THEN /\ tasks' = Take(tasks, t)
            /\ last' = Label("stop", 1, "rejected")
            /\ fault' = "uncaught"
       ELSE /\ tasks' = Put(Take(tasks, t),
                            [t EXCEPT !.pc = "stopping", !.proc = process,
                                      !.log = Append(@, "stop")])
            /\ last' = Label("stop", 1, "written")
            /\ fault' = "none"
    /\ UNCHANGED <<supVars, envVars, loops, watchers, stopPending, fsVars, idleVars,
                   shutdownCalls, sinceStart>>

\* The values of process.platform: the two that zip has a case for, and
\* one that stands for every other.
Platforms == {"win32", "linux", "darwin"}

\* The platforms on which zip starts the archive tool.
ZipRuns == platform \in {"win32", "linux"}

\* resetWorld: the archive tool exits and zip resolves, whatever the exit
\* code; readdir is issued.  A tool that worked has written the archive n
\* (the name was made from the clock when resetWorld began).  On a platform
\* without a case in zip no tool is started and the promise stays pending.
ZipExit(t, n, archived) ==
    /\ t.pc = "zip"
    /\ ZipRuns
    /\ tasks' = Put(Take(tasks, t),
                    [t EXCEPT !.pc = "readdir", !.log = Append(@, "zip"),
                              !.arch = IF archived THEN "ok" ELSE "failed"])
    /\ backups' = IF archived THEN backups \cup {n} ELSE backups
    /\ last' = Quiet
    /\ fault' = IF archived THEN "none" ELSE "ignored"
    /\ UNCHANGED <<supVars, envVars, loops, watchers, stopPending, shutdownCalls, sinceStart,
                   score, idleVars>>

\* The < of JavaScript strings: by the first code unit that differs, a
\* proper prefix first.
RECURSIVE StringLess(_, _)
StringLess(a, b) ==
    IF b = <<>> THEN FALSE
    ELSE IF a = <<>> THEN TRUE
    ELSE IF Head(a) = Head(b) THEN StringLess(Tail(a), Tail(b))
    ELSE Head(a) < Head(b)

\* Array.prototype.sort() without a comparator, on an array of distinct
\* strings.
RECURSIVE sortDescending(_)
sortDescending(S) ==
    IF S = {} THEN <<>>
    ELSE LET m == CHOOSE x \in S : \A y \in S \ {x} : StringLess(y, x)
         IN  <<m>> \o sortDescending(S \ {m})

RECURSIVE sort(_)
sort(S) ==
    IF S = {} THEN <<>>
    ELSE LET m == CHOOSE x \in S : \A y \in S \ {x} : StringLess(x, y)
         IN  <<m>> \o sort(S \ {m})

\* backups.length > 10
TooManyLate(S) == Cardinality(S) > Retention + 1

TooMany(S) == Cardinality(S) > Retention

\* backups.sort()[0]
oldestBackup(S) == sort(S)[1]

\* readdir resolves: with more than 10 entries the removal of the oldest is
\* issued, else the removal of the world directory.
ReaddirDone(t) ==
    /\ t.pc = "readdir"
    /\ tasks' = Put(Take(tasks, t),
                    IF TooMany(backups)
                    THEN [t EXCEPT !.pc = "prune", !.victim = oldestBackup(backups)]
                    ELSE [t EXCEPT !.pc = "rmworld"])
    /\ last' = Quiet
    /\ fault' = "none"
    /\ UNCHANGED <<supVars, envVars, loops, watchers, stopPending, fsVars, idleVars,
                   shutdownCalls, sinceStart>>

\* The removal of the oldest backup resolves; the removal of the world
\* directory is issued.
PruneDone(t) ==
    /\ t.pc = "prune"
    /\ t.victim \in backups
    /\ backups' = backups \ {t.victim}
    /\ tasks' = Put(Take(tasks, t), [t EXCEPT !.pc = "rmworld", !.log = Append(@, "prune")])
    /\ last' = Quiet
    /\ fault' = "none"
    /\ UNCHANGED <<supVars, envVars, loops, watchers, stopPending, shutdownCalls, sinceStart,
                   score, idleVars>>

\* readdir or one of the two removals rejects (the removal of a backup that
\* is no longer there does): resetWorld rejects and the catch of
\* checkDeathCount logs it.
ResetFails(t) ==
    /\ t.pc \in {"readdir", "prune", "rmworld"}
    /\ tasks' = Take(tasks, t)
    /\ last' = Label("reset", t.w, "failed")
    /\ fault' = "logged"
    /\ UNCHANGED <<supVars, envVars, loops, watchers, stopPending, fsVars, idleVars,
                   shutdownCalls, sinceStart>>

\* The removal of the world directory resolves and server.start() is called:
\* its promise is dropped.  The scoreboard goes with the world, unless a
\* running child holds it in memory and saves it again.
WorldRemoved(t) ==
    /\ t.pc = "rmworld"
    /\ tasks' = Take(tasks, t)
    /\ score' = IF \E p \in Procs : status[p] = "alive" THEN score ELSE 0
    /\ start(1, "uncaught")
    /\ UNCHANGED <<loops, watchers, stopPending, backups, idleVars>>

\* The public methods of the supervisor under any caller, and the exit of
\* its children: none of these methods reads a field that the connector
\* writes.
CallNext ==
    \/ CallStart
    \/ CallStop
    \/ CallKill
    \/ CallRunCommand
    \/ \E p \in Procs : ProcExit(p)

\* The supervisor with its connector, under any caller of the methods that
\* change its fields (stop() and runCommand() change none).
SupNext ==
    \/ CallStart
    \/ KeyRestart
    \/ CallKill
    \/ \E p \in Procs : ProcExit(p)
    \/ \E p \in Procs : StdoutStarted(p)
    \/ \E p \in Procs : StdoutOffline(p)
    \/ \E l \in BagToSet(loops) : LoopAccepted(l)
    \/ \E l \in BagToSet(loops) : LoopFailed(l)
    \/ \E l \in BagToSet(loops) : LoopRetry(l)
    \/ \E l \in BagToSet(loops) : LoopConnected(l)

\* The death watchers and their sequences up to the call of stop().
TickNext ==
    \/ \E w \in 1..Len(watchers) : Tick(w)
    \/ \E t \in BagToSet(tasks) : SendFails(t)
    \/ \E t \in BagToSet(tasks), result \in Responses : Detected(t, result)
    \/ \E t \in BagToSet(tasks) : ShowStats(t, Still)
    \/ \E t \in BagToSet(tasks) : CountdownDone(t)

\* The steps of resetWorld after its first await.
ResetNext ==
    \/ \E t \in BagToSet(tasks), n \in Names, archived \in BOOLEAN : ZipExit(t, n, archived)
    \/ \E t \in BagToSet(tasks) : ReaddirDone(t)
    \/ \E t \in BagToSet(tasks) : PruneDone(t)
    \/ \E t \in BagToSet(tasks) : ResetFails(t)
    \/ \E t \in BagToSet(tasks) : WorldRemoved(t)

\* The death watchers and the sequences they start.
WatchNext == TickNext \/ ResetNext

\* showStats with players who have moved.
StatsNext ==
    \E t \in BagToSet(tasks), k \in 1..Len(distanceObjectives), a \in TravelA, b \in TravelB :
        ShowStats(t, Travel(k, a, b))

Next == SupNext \/ CallNext \/ WatchNext \/ StatsNext

\* The whole program.
Spec == Init /\ [][Next]_vars

\* The supervisor alone: the watchers touch it through stop() and start()
\* only.
SupSpec == Init /\ [][SupNext]_vars

CallSpec == Init /\ [][CallNext]_vars

\* The application as index.ts wires it: start() from main and the C-r key,
\* stop() from the death sequence only (the keys that call stop() and kill()
\* end the program).
AppNext ==
    \/ KeyRestart
    \/ \E p \in Procs : ProcExit(p)
    \/ \E p \in Procs : StdoutStarted(p)
    \/ \E p \in Procs : StdoutOffline(p)
    \/ \E l \in BagToSet(loops) : LoopAccepted(l)
    \/ \E l \in BagToSet(loops) : LoopFailed(l)
    \/ \E l \in BagToSet(loops) : LoopRetry(l)
    \/ \E l \in BagToSet(loops) : LoopConnected(l)
    \/ WatchNext

AppSpec == Init /\ [][AppNext]_vars

\* The watchers of the application with a server whose RCON listener stays
\* up and accepts every connection, and whose restarts come from the C-r key
\* (an archive tool that does not return).
WatchedNext ==
    \/ KeyRestart
    \/ \E p \in Procs : ProcExit(p)
    \/ \E p \in Procs : StdoutStarted(p)
    \/ \E l \in BagToSet(loops) : LoopAccepted(l)
    \/ \E l \in BagToSet(loops) : LoopConnected(l)
    \/ TickNext

WatchSpec == Init /\ [][WatchedNext]_vars

\* The same, with players who have moved.
StatsSpec == Init /\ [][WatchedNext \/ StatsNext]_vars

\* One run of resetWorld on its own, from its first await on: the first
\* child was stopped by a death sequence and has exited, the archive tool
\* runs, and the backup directory holds any names within the retention (what
\* a run that came before has left).
ResetInit ==
    /\ serverStarting = FALSE
    /\ serverOnline = FALSE
    /\ serverRconOnline = FALSE
    /\ rconConnected = FALSE
    /\ rcon = 1
    /\ process = 1
    /\ nproc = 1
    /\ status = [p \in Procs |-> IF p = 1 THEN "dead" ELSE "none"]
    /\ loops = EmptyBag
    /\ watchers = <<[active |-> FALSE, gen |-> 1]>>
    /\ tasks = SetToBag({[w |-> 1, pc |-> "zip", proc |-> 1, log |-> <<"stop", "exit">>,
                          arch |-> "none", victim |-> <<>>]})
    /\ stopPending = [p \in Procs |-> FALSE]
    /\ backups \in {S \in SUBSET Names : Cardinality(S) <= Retention}
    /\ shutdownCalls = [p \in Procs |-> IF p = 1 THEN 1 ELSE 0]
    /\ sinceStart = "exit"
    /\ last = Label("exit", 0, "ok")
    /\ fault = "none"
    /\ score = 0
    /\ platform = "linux"
    /\ CodecIdle

ResetSpec == ResetInit /\ [][ResetNext]_vars

----
\* The application on any platform, under the conditions a restart after a
\* death needs: main starts the server once and the spawn works, the RCON
\* listener comes up and accepts, every send resolves, the child exits when
\* (and only when) it was told to stop, every step of the file system works,
\* and the archive tool succeeds or fails.
LiveInit ==
    /\ Constructed
    /\ score = 0
    /\ platform \in Platforms
    /\ CodecIdle

MainStart == nproc = 0 /\ CallStart /\ last'.res = "spawned"

StoppedExit(p) == Stopping(tasks, p) # {} /\ ProcExit(p) /\ fault' = "none"

Restart(t) == WorldRemoved(t) /\ last'.res \in {"spawned", "rejected"}

LiveNext ==
    \/ MainStart
    \/ \E p \in Procs : StoppedExit(p)
    \/ \E p \in Procs : StdoutStarted(p)
    \/ \E l \in BagToSet(loops) : LoopAccepted(l)
    \/ \E l \in BagToSet(loops) : LoopConnected(l)
    \/ \E w \in 1..Len(watchers) : Tick(w)
    \/ \E t \in BagToSet(tasks), result \in Responses : Detected(t, result)
    \/ \E t \in BagToSet(tasks) : ShowStats(t, Still)
    \/ \E t \in BagToSet(tasks) : CountdownDone(t)
    \/ \E t \in BagToSet(tasks), n \in Names, archived \in BOOLEAN : ZipExit(t, n, archived)
    \/ \E t \in BagToSet(tasks) : ReaddirDone(t)
    \/ \E t \in BagToSet(tasks) : PruneDone(t)
    \/ \E t \in BagToSet(tasks) : Restart(t)

\* Every awaited promise that can settle does, and every timer fires: the
\* event loop runs a callback that is ready.
LiveFair ==
    /\ WF_vars(\E t \in BagToSet(tasks) : ShowStats(t, Still))
    /\ WF_vars(\E t \in BagToSet(tasks) : CountdownDone(t))
    /\ WF_vars(\E p \in Procs : StoppedExit(p))
    /\ WF_vars(\E t \in BagToSet(tasks), n \in Names, archived \in BOOLEAN :
                   ZipExit(t, n, archived))
    /\ WF_vars(\E t \in BagToSet(tasks) : ReaddirDone(t))
    /\ WF_vars(\E t \in BagToSet(tasks) : PruneDone(t))
    /\ WF_vars(\E t \in BagToSet(tasks) : Restart(t))

LiveSpec == LiveInit /\ [][LiveNext]_vars /\ LiveFair

----
\* The properties codec (parse and stringify of server.properties).  A
\* string is a sequence of characters; a value is null, a boolean, a number
\* or a string, with its type.
Null == <<"null">>

Bool(b) == <<"boolean", b>>

Num(n) == <<"number", n>>

Str(s) == <<"string", s>>

Digits == <<"0", "1", "2", "3", "4", "5", "6", "7", "8", "9">>

IsDigit(c) == \E i \in 1..Len(Digits) : Digits[i] = c

DigitValue(c) == (CHOOSE i \in 1..Len(Digits) : Digits[i] = c) - 1

\* JSON.stringify of a natural number.
RECURSIVE Decimal(_)
Decimal(n) ==
    IF n < Len(Digits) THEN <<Digits[n + 1]>>
    ELSE Decimal(n \div Len(Digits)) \o <<Digits[(n % Len(Digits)) + 1]>>

\* The number a string of digits denotes.
RECURSIVE NumeralValue(_)
NumeralValue(s) ==
    IF s = <<>> THEN 0
    ELSE NumeralValue(SubSeq(s, 1, Len(s) - 1)) * Len(Digits) + DigitValue(s[Len(s)])

\* The JSON grammar of a number without sign, fraction and exponent.
IsNumeral(s) ==
    /\ s # <<>>
    /\ \A i \in 1..Len(s) : IsDigit(s[i])
    /\ Len(s) > 1 => s[1] # "0"

\* String.prototype.trim, for the one whitespace character of the strings
\* below.
RECURSIVE trim(_)
trim(s) ==
    IF s = <<>> THEN s
    ELSE IF Head(s) = " " THEN trim(Tail(s))
    ELSE IF s[Len(s)] = " " THEN trim(SubSeq(s, 1, Len(s) - 1))
    ELSE s

\* String.prototype.split with a separator of one character.
RECURSIVE split(_, _)
split(s, sep) ==
    IF \A i \in 1..Len(s) : s[i] # sep THEN <<s>>
    ELSE LET i == CHOOSE k \in 1..Len(s) : s[k] = sep /\ \A j \in 1..(k - 1) : s[j] # sep
         IN  <<SubSeq(s, 1, i - 1)>> \o split(SubSeq(s, i + 1, Len(s)), sep)

\* parseValue: the empty string is null; what JSON.parse accepts is its
\* value (of the strings that reach it here, trimmed and over the characters
\* of CodecStrings, of the numerals and of true and false, JSON.parse accepts
\* the literals true, false and null and the numerals); anything else is the
\* string itself.
parseValue(value) ==
    IF value = <<>> THEN Null
    ELSE IF value = <<"t", "r", "u", "e">> THEN Bool(TRUE)
    ELSE IF value = <<"f", "a", "l", "s", "e">> THEN Bool(FALSE)
    ELSE IF value = <<"n", "u", "l", "l">> THEN Null
    ELSE IF IsNumeral(value) THEN Num(NumeralValue(value))
    ELSE Str(value)

\* stringifyValue: null is the empty string, a number goes through
\* JSON.stringify, a boolean is put into the template string as true or
\* false, a string is returned as it is.
stringifyValue(value) ==
    IF value = Null THEN <<>>
    ELSE IF value[1] = "number" THEN Decimal(value[2])
    ELSE IF value[1] = "boolean"
    THEN (IF value[2] THEN <<"t", "r", "u", "e">> ELSE <<"f", "a", "l", "s", "e">>)
    ELSE value[2]

\* parse, line by line: a line is trimmed, skipped when it begins with '#'
\* or does not split at '=' into two parts, and else sets the trimmed key to
\* the parsed trimmed value.
RECURSIVE parseLines(_, _)
parseLines(lines, output) ==
    IF lines = <<>> THEN output
    ELSE LET line == trim(Head(lines))
             parts == split(line, "=")
         IN  IF (line # <<>> /\ line[1] = "#") \/ Len(parts) # 2
             THEN parseLines(Tail(lines), output)
             ELSE parseLines(Tail(lines),
                             (trim(parts[1]) :> parseValue(trim(parts[2]))) @@ output)

parse(data) == parseLines(split(data, "\n"), <<>>)

\* stringify: the entries as key=value, joined by line feeds.  The keys
\* below stay different under trim, so the order of the entries makes no
\* difference to what parse returns.
RECURSIVE stringify(_)
stringify(data) ==
    IF DOMAIN data = {} THEN <<>>
    ELSE LET key == CHOOSE k \in DOMAIN data : TRUE
             rest == [k \in DOMAIN data \ {key} |-> data[k]]
             entry == key \o <<"=">> \o stringifyValue(data[key])
         IN  IF DOMAIN rest = {} THEN entry
             ELSE entry \o <<"\n">> \o stringify(rest)

\* The mappings the codec is run on: up to three keys, with values of every
\* type.
CodecChars == {"1", "a", "=", " "}

CodecStrings ==
    {<<>>} \cup {<<a>> : a \in CodecChars} \cup {<<a, b>> : a \in CodecChars, b \in CodecChars}
    \cup {<<"t", "r", "u", "e">>, <<"n", "u", "l", "l">>}

CodecNumbers == {0, 1, 10}

CodecValues ==
    {Null} \cup {Bool(b) : b \in BOOLEAN} \cup {Num(n) : n \in CodecNumbers}
    \cup {Str(s) : s \in CodecStrings}

CodecKeys == {<<"a">>, <<"1">>, <<"#", "a">>}

Mappings == UNION {[D -> CodecValues] : D \in SUBSET CodecKeys}

CodecInit ==
    /\ Constructed
    /\ score = 0
    /\ platform = "linux"
    /\ codecIn \in Mappings
    /\ codecText = <<>>
    /\ codecOut = <<>>

\* stringify is applied to the mapping.
Stringify ==
    /\ last.op = "init"
    /\ codecText' = stringify(codecIn)
    /\ last' = Label("stringify", 0, "ok")
    /\ UNCHANGED <<supVars, envVars, appVars, stopPending, fsVars, shutdownCalls, sinceStart,
                   fault, platform, codecIn, codecOut>>

\* parse is applied to the text.
Parse ==
    /\ last.op = "stringify"
    /\ codecOut' = parse(codecText)
    /\ last' = Label("parse", 0, "ok")
    /\ UNCHANGED <<supVars, envVars, appVars, stopPending, fsVars, shutdownCalls, sinceStart,
                   fault, platform, codecIn, codecText>>

CodecNext == Stringify \/ Parse

CodecSpec == CodecInit /\ [][CodecNext]_vars

----
\* What the properties below count.
Alive == {p \in Procs : status[p] = "alive"}

ActiveWatchers == {w \in 1..Len(watchers) : watchers[w].active}

WatchersOf(g) == {w \in 1..Len(watchers) : watchers[w].gen = g}

\* The number of elements of bag b that satisfy Keep.
CountWhere(b, Keep(_)) ==
    BagCardinality([t \in {x \in BagToSet(b) : Keep(x)} |-> b[t]])

PastDetection(t) == t.pc # "detect"

PastStop(t) == t.pc \in {"stopping", "zip", "readdir", "prune", "rmworld"}

\* C1, as stated: while a start is in progress or the supervisor is online,
\* no step spawns a child, and a start() call is rejected and leaves the
\* lifecycle, the RCON state and the children as they were; and a start()
\* that follows a start() with no 'exit' event in between is rejected.
C1_SecondStartBeforeExitFails ==
    [][ /\ (serverStarting \/ serverOnline) =>
              /\ nproc' = nproc
              /\ last'.op = "start" =>
                     (last'.res = "rejected" /\ UNCHANGED <<supVars, envVars>>)
        /\ (sinceStart \in {"none", "error"} /\ last'.op = "start") =>
               last'.res = "rejected" ]_vars

\* C1, as amended: the same, for a start() that follows a start() with
\* neither an 'exit' nor an 'error' event in between.
C1_StartWhileStartedFails ==
    [][ /\ (serverStarting \/ serverOnline) =>
              /\ nproc' = nproc
              /\ last'.op = "start" =>
                     (last'.res = "rejected" /\ UNCHANGED <<supVars, envVars>>)
        /\ (sinceStart = "none" /\ last'.op = "start") =>
               last'.res = "rejected" ]_vars

\* C1's case: a start() was rejected while online, no event since the start
\* that spawned the child.
C1_Witness ==
    /\ last = Label("start", 0, "rejected")
    /\ sinceStart = "none"
    /\ serverOnline
    /\ status[process] = "alive"

\* C2: at most one spawned child that has not exited.
C2_AtMostOneLiveChild == Cardinality(Alive) <= 1

\* C3: in one generation at most one death sequence (announcement,
\* countdown, stop, reset) is under way: the watchers of one generation never
\* have two invocations of checkDeathCount past the detection.
C3_OneSequencePerGeneration ==
    \A g \in Procs :
        LET OfGen(t) == PastDetection(t) /\ watchers[t.w].gen = g
        IN  CountWhere(tasks, OfGen) <= 1

\* C4: stop() is written once per child by the death sequences, and every
\* sequence goes stop, exit, archive, prune, removal in this order.
C4_StopOnceThenResetInOrder ==
    /\ \A p \in Procs :
           LET OnChild(t) == PastStop(t) /\ t.proc = p
           IN  CountWhere(tasks, OnChild) <= 1
    /\ \A t \in BagToSet(tasks) :
           /\ t.pc = "stopping" => t.log = <<"stop">>
           /\ t.pc = "zip" => t.log = <<"stop", "exit">>
           /\ t.pc \in {"readdir", "prune"} => t.log = <<"stop", "exit", "zip">>
           /\ t.pc = "rmworld" =>
                  t.log \in {<<"stop", "exit", "zip">>, <<"stop", "exit", "zip", "prune">>}
           /\ PastStop(t) => status[t.proc] = IF t.pc = "stopping" THEN "alive" ELSE "dead"

\* C5: a tick that finds the supervisor offline or RCON not connected starts
\* no checkDeathCount (so issues no send) and clears the interval; a watcher
\* whose interval is cleared stays so and never ticks again.
C5_GuardTickStopsWatcher ==
    [][ \A w \in 1..Len(watchers) :
          /\ (last'.op = "tick" /\ last'.who = w /\ (~serverOnline \/ ~rconConnected)) =>
                 /\ last'.res = "stopped"
                 /\ tasks' = tasks
                 /\ ~watchers'[w].active
          /\ ~watchers[w].active =>
                 /\ ~watchers'[w].active
                 /\ ~(last'.op = "tick" /\ last'.who = w) ]_vars

\* C5's case: a watcher was stopped by its guard while the supervisor was
\* online again but RCON was not connected.
C5_Witness ==
    \E w \in 1..Len(watchers) :
        /\ last = Label("tick", w, "stopped")
        /\ ~watchers[w].active
        /\ serverOnline
        /\ ~rconConnected

\* C6: at most one active watcher, and at most one onOnline (so one watcher
\* created) per generation.
C6_OneWatcher ==
    /\ Cardinality(ActiveWatchers) <= 1
    /\ \A g \in Procs : Cardinality(WatchersOf(g)) <= 1

\* C7: a connector loop connects again only while the child it was started
\* for runs, and it never marks Connected, stores a session and calls
\* onOnline when a later child is the supervisor's current one.
C7_NoStaleConnector ==
    /\ (last.op = "retry" /\ last.res = "connecting") => status[last.who] = "alive"
    /\ last.op = "onOnline" => process = last.who

\* C8: when onOnline is called the supervisor is online and connected and
\* the session is one of the running current child.
C8_OnlineWhenOnOnline ==
    last.op = "onOnline" =>
        /\ serverOnline
        /\ rconConnected
        /\ rcon = process
        /\ status[process] = "alive"

\* C9: onShutdown is called at most once per child, exactly once for a child
\* that has ended, and after an 'exit' or 'error' event the supervisor is
\* neither online nor connected.
C9_ShutdownOncePerLifecycle ==
    /\ \A p \in Procs :
           /\ shutdownCalls[p] <= 1
           /\ status[p] = "dead" => shutdownCalls[p] = 1
    /\ (last.op = "exit" \/ last.res \in {"error", "spawnerror"}) =>
           (~serverOnline /\ ~rconConnected)

\* C10: a session handle is held only while connected.
C10_SessionOnlyWhileConnected == rcon # 0 => rconConnected

\* C11: a stop() called while online writes 'stop' to the stdin of the
\* current child, sends no signal and leaves its promise pending; the
\* promise resolves only in the step of the 'exit' event of that child, and
\* in the state that step leaves neither guard of start() holds.
C11_StopResolvesAtExit ==
    [][ /\ (serverOnline /\ last'.op = "stop" /\ last'.who = 0) =>
               /\ last'.res = "written"
               /\ fault' = "none"
               /\ stopPending'[process]
               /\ status' = status
        /\ \A p \in Procs :
               /\ (~stopPending[p] /\ stopPending'[p]) =>
                      (last' = Label("stop", 0, "written") /\ process = p)
               /\ (stopPending[p] /\ ~stopPending'[p]) =>
                      /\ status[p] = "alive"
                      /\ status'[p] = "dead"
                      /\ last'.op = "exit"
                      /\ ~serverStarting'
                      /\ ~serverOnline' ]_vars

\* C11's case: the 'exit' event of a child resolved a pending stop().
C11_Witness ==
    /\ last = Label("exit", 0, "resolved")
    /\ status[process] = "dead"
    /\ ~stopPending[process]
    /\ ~serverStarting
    /\ ~serverOnline

\* C12: a stop(), kill() or runCommand() called while the supervisor is not
\* online is rejected to its caller and changes nothing: no write to a
\* child's stdin, no signal, no pending promise, no field of the supervisor.
C12_OfflineCallsHaveNoEffect ==
    [][ (~serverOnline /\ last'.op \in {"stop", "kill", "runCommand"} /\ last'.who = 0) =>
            /\ last'.res = "rejected"
            /\ fault' = "returned"
            /\ UNCHANGED <<supVars, envVars, appVars, stopPending, fsVars,
                           shutdownCalls, sinceStart>> ]_vars

\* C12's case: stop() was rejected after the child of the supervisor had
\* exited.
C12_Witness ==
    /\ last = Label("stop", 0, "rejected")
    /\ fault = "returned"
    /\ sinceStart = "exit"
    /\ status[process] = "dead"
    /\ ~serverOnline

\* C13: a start() that fails in its executor (the properties file, the
\* spawn) has logged the failure and leaves the supervisor neither starting
\* nor online.
C13_FailedStartLeavesStopped ==
    (last.op = "start" /\ last.res \in {"threw", "spawnerror"}) =>
        /\ fault = "logged"
        /\ ~serverStarting
        /\ ~serverOnline

\* C14: whatever fails in resetWorld (a step of the file system, or the
\* start() at its end) is caught and logged, never left uncaught.
C14_ResetErrorsCaught ==
    /\ last.op = "reset" => fault = "logged"
    /\ (last.op = "start" /\ last.who = 1) => fault \in {"none", "logged"}

\* C15: the removal of the world directory is issued only by a run of
\* resetWorld whose archive tool has succeeded.
C15_NoDeleteWithoutArchive ==
    \A t \in BagToSet(tasks) : t.pc = "rmworld" => t.arch = "ok"

\* C16: a send that fails is logged.
C16_SendFailureLogged ==
    (last.op = "send" /\ last.res = "failed") => fault = "logged"

\* Lexicographic order of two distinct names: smaller at the first position
\* where they differ, or a proper prefix.
LexBefore(a, b) ==
    \/ \E i \in 1..Len(a) :
           /\ i <= Len(b)
           /\ a[i] < b[i]
           /\ \A j \in 1..(i - 1) : a[j] = b[j]
    \/ /\ Len(a) < Len(b)
       /\ \A j \in 1..Len(a) : a[j] = b[j]

C18_PruneRemovesSmallest ==
    [][ \A t \in BagToSet(tasks) : \A u \in BagToSet(tasks') :
          /\ (t.pc = "readdir" /\ u.pc = "prune") =>
                 /\ Cardinality(backups) > Retention
                 /\ u.victim \in backups
                 /\ \A m \in backups \ {u.victim} : LexBefore(u.victim, m)
                 /\ backups' = backups
          /\ (t.pc = "readdir" /\ u.pc = "rmworld") =>
                 /\ Cardinality(backups) <= Retention
                 /\ backups' = backups
          /\ (t.pc = "prune" /\ u.pc = "rmworld") =>
                 /\ backups' = backups \ {t.victim}
                 /\ Cardinality(backups') = Cardinality(backups) - 1 ]_vars

\* C18's case: of 11 entries the smallest has been removed and 10 are left.
C18_Witness ==
    \E t \in BagToSet(tasks) :
        /\ t.pc = "rmworld"
        /\ t.victim # <<>>
        /\ t.victim \notin backups
        /\ Cardinality(backups) = Retention
        /\ \A m \in backups : LexBefore(t.victim, m)

\* The child that was current when the watcher of sequence t was created.
GenOf(t) == watchers[t.w].gen

\* C19: a death sequence acts on its own generation only: the child whose
\* stdin got its 'stop' is the child of its watcher, and it has the removal
\* of the world directory under way only while no later child has been
\* spawned.
C19_SequenceStaysInGeneration ==
    \A t \in BagToSet(tasks) :
        /\ t.pc = "stopping" => t.proc = GenOf(t)
        /\ t.pc = "rmworld" => process = GenOf(t)

\* C20: a tick that passes the guard and starts checkDeathCount belongs to a
\* watcher whose child still runs.
C20_StoppedProcessHaltsWatcher ==
    (last.op = "tick" /\ last.res = "checking") =>
        status[watchers[last.who].gen] = "alive"

\* C21: a detection whose response contains neither success substring ends
\* the invocation and starts nothing: no invocation goes on to the
\* announcement, nothing is written to a child, no promise of stop() is
\* pending that was not, the supervisor, the children and the backups are as
\* they were, and the watcher is as it was.
C21_NoMarkerNoSequence ==
    [][ (last'.op = "detect" /\ last'.response \cap Markers = {}) =>
            /\ watchers' = watchers
            /\ \E t \in BagToSet(tasks) :
                   /\ t.pc = "detect"
                   /\ t.w = last'.who
                   /\ tasks' = Take(tasks, t)
            /\ UNCHANGED <<supVars, envVars, loops, stopPending, fsVars,
                           shutdownCalls, sinceStart>> ]_vars

\* C21's case: a response without a success substring has arrived and the
\* watcher is active, with no invocation of its own left.
C21_Witness ==
    /\ last.op = "detect"
    /\ last.who = 1
    /\ last.response = {}
    /\ watchers[1].active
    /\ tasks = EmptyBag
    /\ serverOnline
    /\ rconConnected

\* C22: parse gives back the mapping that stringify was given: the same
\* keys, each with the same value of the same type.
C22_RoundTrip == last.op = "parse" => codecOut = codecIn

\* C23: the distance shown by the stats is the sum of the scores of all
\* players in the 14 travel objectives, divided by 100 without the
\* remainder; and in the commands every fold comes before the division,
\* which comes before the broadcast.
C23_DistanceIsQuotient ==
    /\ last.op = "stats" => last.shown = last.travelled \div 100
    /\ \A i, j \in 1..Len(distanceCommands) :
           /\ (distanceCommands[i][1] = "fold" /\ distanceCommands[j][1] # "fold") => i < j
           /\ (distanceCommands[i][1] = "divide" /\ distanceCommands[j][1] = "tellraw") => i < j

\* C24: while a run of resetWorld has the removal of the world directory
\* under way, the supervisor is not online and no child runs.
C24_WorldRemovedOnlyOffline ==
    \A t \in BagToSet(tasks) :
        t.pc = "rmworld" => (~serverOnline /\ \A p \in Procs : status[p] # "alive")

\* C25: once a death has been detected (while the model can still spawn a
\* child), resetWorld comes to its end: start() is called by it and the
\* supervisor is online again.
C25_DeathLeadsToRestart ==
    (nproc < MaxProc /\ \E t \in BagToSet(tasks) : t.pc = "announce")
        ~> (last.op = "start" /\ last.who = 1 /\ serverOnline)
====
